---- MODULE Spec2Model ----
(***************************************************************************)
(* Model of the uniconv example plugins image-ascii (ascii.py) and         *)
(* image-grayscale (grayscale.py) and of the release script (release.py).  *)
(*                                                                         *)
(* Python floats are IEEE-754 doubles.  The expressions the plugins        *)
(* truncate with int() are built from one division of two small integers   *)
(* and one multiplication by a small integer, so doubles are modelled      *)
(* exactly: a 53 bit mantissa plus a guard bit, kept in three 18 bit       *)
(* limbs, with round-to-nearest-even after each operation.                 *)
(***************************************************************************)
EXTENDS Integers, Sequences, FiniteSets, TLC

VARIABLES
    pc,             \* position of the running function
    \* ---- the plugin process: main() of ascii.py / grayscale.py
    plugin,         \* which plugin runs
    caller,         \* who called image_to_ascii: main or a direct caller
    args,           \* parsed command line (argparse namespace)
    pillow,         \* whether "from PIL import Image" succeeds
    fs,             \* file system: path -> contents, for the existing files
    fs0,            \* the file system when the process started
    output_path, img, grid, resized, lines, ascii_art, gray,
    err,            \* the exception in flight
    result,         \* the JSON object printed on stdout
    exit_code,
    calls,          \* the calls made so far, in order
    \* ---- image_to_ascii: per-pixel glyph selection (ascii.py 100-109)
    chars, gray_val, char_idx, char,
    \* ---- rgb_to_ansi (ascii.py 36-42)
    rgb, ansi_code,
    \* ---- release.py
    cmakelists,     \* CMakeLists.txt: whether it exists, the version it declares
    rargs,          \* bump and --dry-run
    current_version, new_version, tag,
    repo,           \* what this run added to the git repository and the remote
    steps,          \* the release steps run so far, each with its outcome
    status          \* exit status of release.py

pixelVars == <<chars, gray_val, char_idx, char>>
ansiVars == <<rgb, ansi_code>>
mainVars == <<plugin, caller, args, pillow, fs, fs0, output_path, img, grid,
              resized, lines, ascii_art, gray, err, result, exit_code, calls>>
releaseVars == <<cmakelists, rargs, current_version, new_version, tag, repo, steps, status>>
vars == <<pc, mainVars, pixelVars, ansiVars, releaseVars>>

None == "None"

(***************************************************************************)
(* Bounds of the model                                                     *)
(***************************************************************************)
MaxRampLen == 258       \* longest glyph ramp fed to the quantizer
MaxSrc == 2             \* largest width and height of a source image
MaxWidth == 2           \* largest --width
MaxGridSrc == 15        \* largest source width and height for the grid size alone
MaxGridWidth == 22      \* largest width for the grid size alone
MaxVer == 1             \* largest component of a version before the release

(***************************************************************************)
(* IEEE-754 double arithmetic on non-negative values                       *)
(* value = (d1 * 2^36 + d2 * 2^18 + d3) * 2^exp, 2^17 <= d1 < 2^18,        *)
(* lowest bit of d3 (the guard position) is 0 in every stored value        *)
(***************************************************************************)
LimbBits == 18
Limb == 262144
HalfLimb == 131072
DoubleBits == 53

RECURSIVE Pow2(_)
Pow2(k) == IF k = 0 THEN 1 ELSE 2 * Pow2(k - 1)

RECURSIVE BitLen(_)
BitLen(n) == IF n = 0 THEN 0 ELSE 1 + BitLen(n \div 2)

FZero == [d1 |-> 0, d2 |-> 0, d3 |-> 0, exp |-> 0]

\* q is a 54 bit window (53 mantissa bits, then the guard bit); sticky tells
\* whether non-zero bits were dropped below the window
RoundNearestEven(q, sticky) ==
    LET guard == q.d3 % 2
        odd == (q.d3 \div 2) % 2
        up == guard = 1 /\ (sticky \/ odd = 1)
        e3 == IF guard = 0 THEN q.d3 ELSE IF up THEN q.d3 + 1 ELSE q.d3 - 1
        e2 == q.d2 + e3 \div Limb
        e1 == q.d1 + e2 \div Limb
    IN IF e1 = Limb
       THEN [d1 |-> HalfLimb, d2 |-> 0, d3 |-> 0, exp |-> q.exp + 1]
       ELSE [d1 |-> e1, d2 |-> e2 % Limb, d3 |-> e3 % Limb, exp |-> q.exp]

\* scale a / b into [1, 2): a / b = (num / den) * 2^e
RECURSIVE Norm(_, _, _)
Norm(a, b, e) ==
    IF a < b THEN Norm(2 * a, b, e - 1)
    ELSE IF a >= 2 * b THEN Norm(a, 2 * b, e + 1)
    ELSE [num |-> a, den |-> b, e |-> e]

\* Python's a / b for integers a >= 0, b > 0: the correctly rounded quotient
FDiv(a, b) ==
    IF a = 0 THEN FZero
    ELSE LET nm == Norm(a, b, 0)
             n1 == nm.num * HalfLimb
             n2 == (n1 % nm.den) * Limb
             n3 == (n2 % nm.den) * Limb
         IN RoundNearestEven([d1 |-> n1 \div nm.den, d2 |-> n2 \div nm.den,
                              d3 |-> n3 \div nm.den, exp |-> nm.e - DoubleBits],
                             n3 % nm.den # 0)

\* Python's x * n (or n * x) for a double x >= 0 and an integer n >= 0
FMulInt(n, x) ==
    IF n = 0 \/ x = FZero THEN FZero
    ELSE LET p3 == x.d3 * n
             p2 == x.d2 * n + p3 \div Limb
             p1 == x.d1 * n + p2 \div Limb
             l3 == p3 % Limb
             l2 == p2 % Limb
             s == BitLen(p1) - LimbBits
             lo == Pow2(s)
             hi == Pow2(LimbBits - s)
         IN RoundNearestEven([d1 |-> p1 \div lo,
                              d2 |-> (p1 % lo) * hi + l2 \div lo,
                              d3 |-> (l2 % lo) * hi + l3 \div lo,
                              exp |-> x.exp + s],
                             l3 % lo # 0)

\* x * 0.5: a power of two only moves the exponent
FHalf(x) == IF x = FZero THEN FZero ELSE [x EXCEPT !.exp = @ - 1]

\* Python's int(x) for a double x >= 0
FTrunc(x) ==
    LET nint == DoubleBits + 1 + x.exp
    IN IF x = FZero \/ nint <= 0 THEN 0
       ELSE IF nint <= LimbBits THEN x.d1 \div Pow2(LimbBits - nint)
       ELSE x.d1 * Pow2(nint - LimbBits) + x.d2 \div Pow2(2 * LimbBits - nint)

Min(a, b) == IF a < b THEN a ELSE b

(***************************************************************************)
(* ascii.py: character sets, as sequences of code points                   *)
(***************************************************************************)
CharsetNames == {"standard", "simple", "blocks", "detailed"}

CHARSETS ==
    [standard |-> <<32, 46, 58, 45, 61, 43, 42, 35, 37, 64>>,
     simple |-> <<32, 46, 58, 42, 35>>,
     blocks |-> <<32, 9617, 9618, 9619, 9608>>,
     detailed |-> <<32, 46, 39, 96, 94, 34, 44, 58, 59, 73, 108, 33, 105, 62,
                    60, 126, 43, 95, 45, 63, 93, 91, 125, 123, 49, 41, 40,
                    124, 47, 116, 102, 106, 114, 120, 110, 117, 118, 99, 122,
                    88, 89, 85, 74, 67, 76, 81, 48, 79, 90, 109, 119, 113,
                    112, 100, 98, 107, 104, 97, 111, 42, 35, 77, 87, 38, 56,
                    37, 66, 64, 36>>]

\* chars[::-1]
Reverse(s) == [k \in 1..Len(s) |-> s[Len(s) + 1 - k]]

\* chars = CHARSETS.get(charset, CHARSETS['standard']); reversed if invert
ResolveCharsNoInvert(charset, invert) ==
    IF charset \in CharsetNames THEN CHARSETS[charset] ELSE CHARSETS["standard"]
ResolveCharsFallbackSimple(charset, invert) ==
    LET base == IF charset \in CharsetNames THEN CHARSETS[charset]
                ELSE CHARSETS["simple"]
    IN IF invert THEN Reverse(base) ELSE base
ResolveChars(charset, invert) ==
    LET base == IF charset \in CharsetNames THEN CHARSETS[charset]
                ELSE CHARSETS["standard"]
    IN IF invert THEN Reverse(base) ELSE base

\* char_idx = min(int(gray_val / 256 * len(chars)), len(chars) - 1), 0-based
GlyphIndex255(g, n) == Min(FTrunc(FMulInt(n, FDiv(g, 255))), n)
GlyphIndex(g, n) == Min(FTrunc(FMulInt(n, FDiv(g, 256))), n - 1)

\* char = chars[char_idx]; -1 stands for the IndexError of an index past the end
Glyph(cs, idx) == IF idx + 1 \in DOMAIN cs THEN cs[idx + 1] ELSE -1

\* int(c / 255 * 5)
CubeIndex(c) == FTrunc(FMulInt(5, FDiv(c, 255)))

rgb_to_ansi_swapped(r, g, b) == 16 + 36 * CubeIndex(b) + 6 * CubeIndex(g) + CubeIndex(r)
rgb_to_ansi(r, g, b) == 16 + 36 * CubeIndex(r) + 6 * CubeIndex(g) + CubeIndex(b)

\* f'#{r:02x}{g:02x}{b:02x}' as six hexadecimal digit values
rgb_to_html_color(r, g, b) ==
    <<r \div 16, r % 16, g \div 16, g % 16, b \div 16, b % 16>>

(***************************************************************************)
(* Values of the variables a specification does not use                    *)
(***************************************************************************)
PixelIdle == chars = <<>> /\ gray_val = 0 /\ char_idx = -1 /\ char = -1
AnsiIdle == rgb = <<0, 0, 0>> /\ ansi_code = -1
NoVersion == <<>>
EmptyRepo == [staged |-> FALSE, commits |-> {}, tags |-> {}, pushed |-> {}]
ReleaseIdle ==
    /\ cmakelists = [exists |-> FALSE, version |-> NoVersion]
    /\ rargs = [bump |-> [kind |-> "patch", version |-> NoVersion], dry_run |-> FALSE]
    /\ current_version = NoVersion /\ new_version = NoVersion /\ tag = NoVersion
    /\ repo = EmptyRepo /\ steps = <<>> /\ status = -1
\* no --output: argparse leaves None, which is falsy like the empty path
NoPath == [base |-> "", ext |-> ""]
\* nothing printed on stdout yet
NoResult == [success |-> FALSE, error |-> "nothing printed"]
\* locals of main and image_to_ascii before they are assigned; an exit code
\* and exit status of -1 mean that the process has not exited
LocalsUnset ==
    /\ output_path = NoPath /\ grid = None /\ resized = None /\ lines = <<>>
    /\ ascii_art = None /\ gray = None /\ err = None /\ result = NoResult
    /\ exit_code = -1 /\ calls = <<>>
MainIdle ==
    /\ plugin = None /\ caller = None /\ args = None /\ pillow = FALSE
    /\ fs = <<>> /\ fs0 = <<>> /\ img = None
    /\ LocalsUnset


(***************************************************************************)
(* The plugin process: main() of ascii.py and of grayscale.py, with        *)
(* image_to_ascii.  Pillow and the file system are the environment.        *)
(***************************************************************************)
Max(a, b) == IF a > b THEN a ELSE b

\* a path is kept split the way os.path.splitext splits it
InputPath == [base |-> "in", ext |-> ".png"]
OutputArgs == {NoPath, [base |-> "out", ext |-> ".txt"], [base |-> "out", ext |-> ".dat"]}
Widths == (-1)..MaxWidth
Modes == {"RGB", "L"}

Undecodable == [kind |-> "image", decodable |-> FALSE, width |-> 0, height |-> 0, mode |-> "RGB"]
InputFiles ==
    {Undecodable} \cup
    {[kind |-> "image", decodable |-> TRUE, width |-> w, height |-> h, mode |-> m] :
        w \in 0..MaxSrc, h \in 0..MaxSrc, m \in Modes}
OldFile == [kind |-> "old"]

\* ascii.py 173-191
AsciiOutputPath(a) ==
    LET output_ext == IF a.html THEN ".html" ELSE ".txt"
        target_suffix == "_" \o a.target
    IN IF a.output # NoPath
       THEN IF a.output.ext \in {".txt", ".html"} THEN a.output
            ELSE [base |-> a.output.base \o target_suffix, ext |-> output_ext]
       ELSE [base |-> a.input.base \o target_suffix, ext |-> output_ext]

\* grayscale.py 60-65
GrayscaleOutputPath(a) ==
    IF a.output # NoPath THEN a.output
    ELSE [base |-> a.input.base \o "_grayscale", ext |-> "." \o a.target]

OutputPathOf(p, a) == IF p = "ascii" THEN AsciiOutputPath(a) ELSE GrayscaleOutputPath(a)

\* os.path.exists
Exists(f, path) == path \in DOMAIN f

\* the file system after path was written with data
WriteFile(f, path, data) ==
    [q \in DOMAIN f \cup {path} |-> IF q = path THEN data ELSE f[q]]

\* the command lines the model runs the plugins with
AsciiArgsOver(widths) ==
    [input : {InputPath}, target : {"ascii"}, output : OutputArgs,
     force : BOOLEAN, dry_run : BOOLEAN, width : widths,
     charset : CharsetNames \cup {"bogus"}, invert : BOOLEAN,
     color : BOOLEAN, html : BOOLEAN]
AsciiArgs == AsciiArgsOver(Widths)
GrayscaleArgs ==
    [input : {InputPath}, target : {"png"}, output : OutputArgs,
     force : BOOLEAN, dry_run : BOOLEAN, width : Widths,
     charset : {"standard"}, invert : {FALSE}, color : {FALSE}, html : {FALSE}]

\* int(width * aspect_ratio * 0.5) with aspect_ratio = height / width of the
\* image; int() truncates toward zero, so a negative width mirrors
CalcHeightClamped(width, im) ==
    Max(1, FTrunc(FHalf(FMulInt(Max(width, 0 - width), FDiv(im.height, im.width)))))
CalcHeight(width, im) ==
    IF width >= 0 THEN FTrunc(FHalf(FMulInt(width, FDiv(im.height, im.width))))
    ELSE 0 - FTrunc(FHalf(FMulInt(0 - width, FDiv(im.height, im.width))))

\* ascii.py 233-235, the same expression evaluated again for the report
ascii_height(width, im) ==
    IF width >= 0 THEN FTrunc(FHalf(FMulInt(width, FDiv(im.height, im.width))))
    ELSE 0 - FTrunc(FHalf(FMulInt(0 - width, FDiv(im.height, im.width))))

\* Pillow's convert('L'): ITU-R 601-2 luma, in 16 bit fixed point
ToGray(p) == (p[1] * 19595 + p[2] * 38470 + p[3] * 7471 + 32768) \div 65536

\* pixel data the resizing collaborator may return: the palette laid out from
\* either of two starting offsets, so that neighbouring cells differ
Palette == <<<<0, 0, 0>>, <<255, 255, 255>>, <<255, 0, 0>>, <<64, 128, 255>>>>
Offsets == {0, 1}
PixelAt(k, s, mode) ==
    LET p == Palette[((k - 1 + s) % Len(Palette)) + 1]
    IN IF mode = "RGB" THEN p ELSE <<ToGray(p), ToGray(p), ToGray(p)>>
\* img.resize((width, height)), convert('RGB'), convert('L'), getdata()
Buffers(width, height, mode) ==
    {[width |-> width, height |-> height,
      pixels |-> [k \in 1..(Max(width, 0) * Max(height, 0)) |-> PixelAt(k, s, mode)],
      gray_pixels |-> [k \in 1..(Max(width, 0) * Max(height, 0)) |->
                          ToGray(PixelAt(k, s, mode))]] : s \in Offsets}

HtmlHead ==
    <<[kind |-> "markup", text |-> "<!DOCTYPE html>"],
      [kind |-> "markup", text |-> "<html><head>"],
      [kind |-> "markup", text |-> "<style>"],
      [kind |-> "markup", text |-> "body { background: #000; }"],
      [kind |-> "markup", text |-> "pre { font-family: monospace; font-size: 10px; line-height: 1; }"],
      [kind |-> "markup", text |-> "</style>"],
      [kind |-> "markup", text |-> "</head><body><pre>"]>>
HtmlTail == <<[kind |-> "markup", text |-> "</pre></body></html>"]>>

\* ascii.py 102-118: the cell for the pixel at 0-based index idx
Cell(cs, buf, idx, color, html) ==
    LET p == buf.pixels[idx + 1]
        ch == Glyph(cs, GlyphIndex(buf.gray_pixels[idx + 1], Len(cs)))
    IN IF html THEN [wrap |-> "span", hex |-> rgb_to_html_color(p[1], p[2], p[3]), char |-> ch]
       ELSE IF color THEN [wrap |-> "ansi", code |-> rgb_to_ansi(p[1], p[2], p[3]), char |-> ch]
       ELSE [wrap |-> "plain", char |-> ch]

\* ascii.py 99-120: range(height) rows of range(width) cells
RenderRows(cs, width, height, buf, color, html) ==
    [y \in 1..Max(height, 0) |->
        [kind |-> "row",
         cells |-> [x \in 1..Max(width, 0) |->
                       Cell(cs, buf, (y - 1) * width + (x - 1), color, html)]]]

\* ascii.py 88-123
RenderLines(cs, width, height, buf, color, html) ==
    IF html THEN HtmlHead \o RenderRows(cs, width, height, buf, color, html) \o HtmlTail
    ELSE RenderRows(cs, width, height, buf, color, html)

NewLine == [kind |-> "newline"]
LineTokens(l) == IF l.kind = "row" THEN l.cells ELSE <<l>>
\* '\n'.join(lines), as the sequence of cells, markup strings and newlines
RECURSIVE JoinLines(_)
JoinLines(ls) ==
    IF ls = <<>> THEN <<>>
    ELSE IF Len(ls) = 1 THEN LineTokens(ls[1])
    ELSE LineTokens(ls[1]) \o <<NewLine>> \o JoinLines(Tail(ls))

Failure(msg) == [success |-> FALSE, error |-> msg]

InitMain ==
    /\ pc = "parse"
    /\ plugin \in {"ascii", "grayscale"}
    /\ caller = "main"
    /\ args \in (IF plugin = "ascii" THEN AsciiArgs ELSE GrayscaleArgs)
    /\ pillow \in BOOLEAN
    /\ \E inputs \in {<<>>} \cup {<<f>> : f \in InputFiles}, old \in BOOLEAN :
         fs = [q \in (IF inputs = <<>> THEN {} ELSE {args.input})
                     \cup (IF old THEN {OutputPathOf(plugin, args)} ELSE {}) |->
                  IF q = args.input THEN inputs[1] ELSE OldFile]
    /\ fs0 = fs
    /\ img = None
    /\ LocalsUnset
    /\ PixelIdle
    /\ AnsiIdle
    /\ ReleaseIdle

\* the process ends: result printed, exit code returned
Finish(res, code) ==
    /\ result' = res
    /\ exit_code' = code
    /\ pc' = "done"

\* ascii.py 129-151, grayscale.py 20-38: argparse rejects a --charset outside
\* its choices with usage on stderr and exit status 2
ParseArgs ==
    /\ pc = "parse"
    /\ IF plugin = "ascii" /\ args.charset \notin CharsetNames
       THEN Finish(NoResult, 2)
       ELSE pc' = "import" /\ UNCHANGED <<result, exit_code>>
    /\ UNCHANGED <<plugin, caller, args, pillow, fs, fs0, output_path, img, grid,
                   resized, lines, ascii_art, gray, err, calls, pixelVars, ansiVars, releaseVars>>

\* ascii.py 153-162, grayscale.py 40-49
ImportPillow ==
    /\ pc = "import"
    /\ IF ~pillow
       THEN Finish(Failure("Pillow not installed"), 1)
       ELSE pc' = "validate" /\ UNCHANGED <<result, exit_code>>
    /\ UNCHANGED <<plugin, caller, args, pillow, fs, fs0, output_path, img, grid,
                   resized, lines, ascii_art, gray, err, calls, pixelVars, ansiVars, releaseVars>>

\* ascii.py 164-171, grayscale.py 51-58
ValidateInput ==
    /\ pc = "validate"
    /\ IF ~Exists(fs, args.input)
       THEN Finish(Failure("Input file not found"), 1)
       ELSE pc' = "output_path" /\ UNCHANGED <<result, exit_code>>
    /\ UNCHANGED <<plugin, caller, args, pillow, fs, fs0, output_path, img, grid,
                   resized, lines, ascii_art, gray, err, calls, pixelVars, ansiVars, releaseVars>>

\* ascii.py 173-191, grayscale.py 60-65
DetermineOutputPath ==
    /\ pc = "output_path"
    /\ output_path' = OutputPathOf(plugin, args)
    /\ pc' = "check_exists"
    /\ UNCHANGED <<plugin, caller, args, pillow, fs, fs0, img, grid, resized, lines,
                   ascii_art, gray, err, result, exit_code, calls, pixelVars, ansiVars, releaseVars>>

\* ascii.py 193-200, grayscale.py 67-74
RefusesOverwriteIgnoringForce == Exists(fs, output_path) /\ args.force
RefusesOverwrite == Exists(fs, output_path) /\ ~args.force
CheckOutputExists ==
    /\ pc = "check_exists"
    /\ IF RefusesOverwrite
       THEN Finish(Failure("Output file exists"), 1)
       ELSE pc' = "dry_run" /\ UNCHANGED <<result, exit_code>>
    /\ UNCHANGED <<plugin, caller, args, pillow, fs, fs0, output_path, img, grid,
                   resized, lines, ascii_art, gray, err, calls, pixelVars, ansiVars, releaseVars>>

\* ascii.py 202-210, grayscale.py 76-84
IsDryRunNever == FALSE
IsDryRun == args.dry_run
DryRun ==
    /\ pc = "dry_run"
    /\ IF IsDryRun
       THEN Finish([success |-> TRUE, output |-> output_path, extra |-> [dry_run |-> TRUE]], 0)
       ELSE pc' = "open" /\ UNCHANGED <<result, exit_code>>
    /\ UNCHANGED <<plugin, caller, args, pillow, fs, fs0, output_path, img, grid,
                   resized, lines, ascii_art, gray, err, calls, pixelVars, ansiVars, releaseVars>>

\* ascii.py 213-214, grayscale.py 87-88: Image.open raises on a file that is
\* not an image
OpenImage ==
    /\ pc = "open"
    /\ calls' = Append(calls, "Image.open")
    /\ IF fs[args.input].decodable
       THEN /\ img' = [width |-> fs[args.input].width, height |-> fs[args.input].height,
                       mode |-> fs[args.input].mode]
            /\ pc' = IF plugin = "ascii" THEN "dimensions" ELSE "convert"
            /\ err' = err
       ELSE /\ err' = "DecodeError"
            /\ pc' = "except"
            /\ img' = img
    /\ UNCHANGED <<plugin, caller, args, pillow, fs, fs0, output_path, grid, resized,
                   lines, ascii_art, gray, result, exit_code, pixelVars, ansiVars, releaseVars>>

\* an exception leaves image_to_ascii: main catches it, a direct caller gets it
Raised == IF caller = "main" THEN "except" ELSE "raised"

\* ascii.py 65-73: the ramp, then the grid; a zero image width divides by zero
CalcDimensions ==
    /\ pc = "dimensions"
    /\ calls' = Append(calls, "image_to_ascii")
    /\ chars' = ResolveChars(args.charset, args.invert)
    /\ IF img.width = 0
       THEN /\ err' = "ZeroDivisionError"
            /\ pc' = Raised
            /\ grid' = grid
       ELSE /\ grid' = [width |-> args.width, height |-> CalcHeight(args.width, img)]
            /\ pc' = "resize"
            /\ err' = err
    /\ UNCHANGED <<plugin, caller, args, pillow, fs, fs0, output_path, img, resized,
                   lines, ascii_art, gray, result, exit_code, gray_val, char_idx,
                   char, ansiVars, releaseVars>>

\* ascii.py 75-86: Pillow resizes to the grid, or raises
Resize ==
    /\ pc = "resize"
    /\ calls' = Append(calls, "resize")
    /\ \/ /\ resized' \in Buffers(grid.width, grid.height, img.mode)
          /\ pc' = "render"
          /\ err' = err
       \/ /\ err' = "ResizeError"
          /\ pc' = Raised
          /\ resized' = resized
    /\ UNCHANGED <<plugin, caller, args, pillow, fs, fs0, output_path, img, grid,
                   lines, ascii_art, gray, result, exit_code, pixelVars, ansiVars, releaseVars>>

\* ascii.py 88-125
Render ==
    /\ pc = "render"
    /\ calls' = Append(calls, "render")
    /\ lines' = RenderLines(chars, grid.width, grid.height, resized, args.color, args.html)
    /\ ascii_art' = JoinLines(lines')
    /\ pc' = IF caller = "main" THEN "write" ELSE "returned"
    /\ UNCHANGED <<plugin, caller, args, pillow, fs, fs0, output_path, img, grid,
                   resized, gray, err, result, exit_code, pixelVars, ansiVars, releaseVars>>

\* ascii.py 226-228: open(output_path, 'w') truncates, then write; either may fail
WriteOutput ==
    /\ pc = "write"
    /\ calls' = Append(calls, "write")
    /\ \/ /\ fs' = WriteFile(fs, output_path, [kind |-> "text", text |-> ascii_art])
          /\ pc' = "report"
          /\ err' = err
       \/ /\ fs' \in {fs, WriteFile(fs, output_path, [kind |-> "text", text |-> <<>>])}
          /\ err' = "OSError"
          /\ pc' = "except"
    /\ UNCHANGED <<plugin, caller, args, pillow, fs0, output_path, img, grid, resized,
                   lines, ascii_art, gray, result, exit_code, pixelVars, ansiVars, releaseVars>>

\* ascii.py 230-251
Report ==
    /\ pc = "report"
    /\ Finish([success |-> TRUE, output |-> output_path,
               output_size |-> Len(fs[output_path].text),
               extra |-> [charset |-> args.charset,
                          ascii_width |-> args.width,
                          ascii_height |-> ascii_height(args.width, img),
                          color_mode |-> IF args.html THEN "html"
                                         ELSE IF args.color THEN "ansi" ELSE "plain",
                          inverted |-> args.invert,
                          original_size |-> <<img.width, img.height>>]], 0)
    /\ UNCHANGED <<plugin, caller, args, pillow, fs, fs0, output_path, img, grid,
                   resized, lines, ascii_art, gray, err, calls, pixelVars, ansiVars, releaseVars>>

\* ascii.py 253-259, grayscale.py 145-151
ExceptResultSuccess(e) == [res |-> [success |-> TRUE, error |-> e], code |-> 0]
ExceptResult(e) == [res |-> Failure(e), code |-> 1]
ExceptHandler ==
    /\ pc = "except"
    /\ Finish(ExceptResult(err).res, ExceptResult(err).code)
    /\ UNCHANGED <<plugin, caller, args, pillow, fs, fs0, output_path, img, grid,
                   resized, lines, ascii_art, gray, err, calls, pixelVars, ansiVars, releaseVars>>

\* grayscale.py 90-105: every method ends in a mode L image of the same size
Convert ==
    /\ pc = "convert"
    /\ calls' = Append(calls, "convert")
    /\ \/ /\ gray' = [width |-> img.width, height |-> img.height, mode |-> "L"]
          /\ pc' = "gs_resize"
          /\ err' = err
       \/ /\ err' = "ConvertError"
          /\ pc' = "except"
          /\ gray' = gray
    /\ UNCHANGED <<plugin, caller, args, pillow, fs, fs0, output_path, img, grid,
                   resized, lines, ascii_art, result, exit_code, pixelVars, ansiVars, releaseVars>>

\* int(img.height * (args.width / img.width)), --height not given
ScaledHeight(width, im) ==
    IF width >= 0 THEN FTrunc(FMulInt(im.height, FDiv(width, im.width)))
    ELSE 0 - FTrunc(FMulInt(im.height, FDiv(0 - width, im.width)))

\* grayscale.py 107-111: a width of 0 is falsy, like no --width
GrayscaleResize ==
    /\ pc = "gs_resize"
    /\ IF args.width = 0
       THEN pc' = "save" /\ UNCHANGED <<gray, err, calls>>
       ELSE IF img.width = 0
       THEN err' = "ZeroDivisionError" /\ pc' = "except" /\ UNCHANGED <<gray, calls>>
       ELSE /\ calls' = Append(calls, "resize")
            /\ \/ /\ gray' = [width |-> args.width, height |-> ScaledHeight(args.width, img),
                              mode |-> "L"]
                  /\ pc' = "save"
                  /\ err' = err
               \/ /\ err' = "ResizeError"
                  /\ pc' = "except"
                  /\ gray' = gray
    /\ UNCHANGED <<plugin, caller, args, pillow, fs, fs0, output_path, img, grid,
                   resized, lines, ascii_art, result, exit_code, pixelVars, ansiVars, releaseVars>>

\* grayscale.py 113-127: gray.save writes the file, or raises with the file
\* untouched or partly written
Save ==
    /\ pc = "save"
    /\ calls' = Append(calls, "save")
    /\ \/ /\ fs' = WriteFile(fs, output_path,
                             [kind |-> "image", decodable |-> TRUE, width |-> gray.width,
                              height |-> gray.height, mode |-> gray.mode])
          /\ pc' = "gs_report"
          /\ err' = err
       \/ /\ fs' \in {fs, WriteFile(fs, output_path, [kind |-> "partial"])}
          /\ err' = "SaveError"
          /\ pc' = "except"
    /\ UNCHANGED <<plugin, caller, args, pillow, fs0, output_path, img, grid, resized,
                   lines, ascii_art, gray, result, exit_code, pixelVars, ansiVars, releaseVars>>

\* grayscale.py 129-143
GrayscaleReport ==
    /\ pc = "gs_report"
    /\ Finish([success |-> TRUE, output |-> output_path,
               extra |-> [original_size |-> <<img.width, img.height>>,
                          output_size_px |-> <<gray.width, gray.height>>]], 0)
    /\ UNCHANGED <<plugin, caller, args, pillow, fs, fs0, output_path, img, grid,
                   resized, lines, ascii_art, gray, err, calls, pixelVars, ansiVars, releaseVars>>

Init == InitMain
Next ==
    \/ ParseArgs \/ ImportPillow \/ ValidateInput \/ DetermineOutputPath
    \/ CheckOutputExists \/ DryRun \/ OpenImage
    \/ CalcDimensions \/ Resize \/ Render \/ WriteOutput \/ Report
    \/ Convert \/ GrayscaleResize \/ Save \/ GrayscaleReport
    \/ ExceptHandler
Spec == Init /\ [][Next]_vars

(***************************************************************************)
(* SpecCore: image_to_ascii called directly, with any charset name         *)
(***************************************************************************)
Images ==
    {[width |-> w, height |-> h, mode |-> m] : w \in 0..MaxSrc, h \in 0..MaxSrc, m \in Modes}

InitCore ==
    /\ pc = "dimensions"
    /\ plugin = "ascii"
    /\ caller = "direct"
    /\ args \in {a \in AsciiArgs : a.output = NoPath /\ ~a.force /\ ~a.dry_run}
    /\ pillow = TRUE
    /\ img \in Images
    /\ fs = <<>> /\ fs0 = <<>>
    /\ LocalsUnset
    /\ PixelIdle
    /\ AnsiIdle
    /\ ReleaseIdle

NextCore == CalcDimensions \/ Resize \/ Render
SpecCore == InitCore /\ [][NextCore]_vars

(***************************************************************************)
(* SpecGrid: the grid size alone (ascii.py 65-73), over larger images      *)
(***************************************************************************)
InitGrid ==
    /\ pc = "dimensions"
    /\ plugin = "ascii"
    /\ caller = "direct"
    /\ args \in {a \in AsciiArgsOver(1..MaxGridWidth) :
                    /\ a.output = NoPath /\ ~a.force /\ ~a.dry_run
                    /\ a.charset = "standard" /\ ~a.invert /\ ~a.color /\ ~a.html}
    /\ pillow = TRUE
    /\ img \in {[width |-> w, height |-> h, mode |-> "RGB"] :
                   w \in 0..MaxGridSrc, h \in 0..MaxGridSrc}
    /\ fs = <<>> /\ fs0 = <<>>
    /\ LocalsUnset
    /\ PixelIdle
    /\ AnsiIdle
    /\ ReleaseIdle

NextGrid == CalcDimensions
SpecGrid == InitGrid /\ [][NextGrid]_vars

(***************************************************************************)
(* SpecPixel: the glyph selection of image_to_ascii's inner loop applied   *)
(* to a gradient of intensities 0..255, for the ramps of the table (plain  *)
(* and inverted) and for ramps of every length up to MaxRampLen            *)
(***************************************************************************)
Ramp(n) == [k \in 1..n |-> 1000 + k]

\* image_to_ascii called with a charset of the table, after ascii.py 65-68
InitPixel ==
    /\ pc = "pixel"
    /\ plugin = "ascii" /\ caller = "direct" /\ pillow = TRUE
    /\ args \in {a \in AsciiArgsOver({1}) :
                    /\ a.output = NoPath /\ ~a.force /\ ~a.dry_run
                    /\ a.charset \in CharsetNames /\ ~a.color /\ ~a.html}
    /\ chars = ResolveChars(args.charset, args.invert)
    /\ gray_val = 0
    /\ char_idx = -1
    /\ char = -1
    /\ fs = <<>> /\ fs0 = <<>> /\ img = None
    /\ LocalsUnset
    /\ AnsiIdle
    /\ ReleaseIdle

\* the same loop over a ramp of any length from 2 to MaxRampLen
InitQuant ==
    /\ pc = "pixel"
    /\ chars \in {Ramp(n) : n \in 2..MaxRampLen}
    /\ gray_val = 0
    /\ char_idx = -1
    /\ char = -1
    /\ MainIdle
    /\ AnsiIdle
    /\ ReleaseIdle

\* ascii.py 103-109
MapGray ==
    /\ pc = "pixel"
    /\ char_idx' = GlyphIndex(gray_val, Len(chars))
    /\ char' = Glyph(chars, char_idx')
    /\ pc' = "mapped"
    /\ UNCHANGED <<chars, gray_val, ansiVars, mainVars, releaseVars>>

\* the next pixel of the gradient (ascii.py 101-103)
NextPixel ==
    /\ pc = "mapped"
    /\ gray_val < 255
    /\ gray_val' = gray_val + 1
    /\ pc' = "pixel"
    /\ UNCHANGED <<chars, char_idx, char, ansiVars, mainVars, releaseVars>>

NextPixelSpec == MapGray \/ NextPixel
SpecPixel == InitPixel /\ [][NextPixelSpec]_vars
SpecQuant == InitQuant /\ [][NextPixelSpec]_vars

(***************************************************************************)
(* SpecAnsi: rgb_to_ansi applied to RGB triples; one channel ranges over   *)
(* all of 0..255 while the other two take sampled values                   *)
(***************************************************************************)
ChannelSamples == {0, 50, 51, 128, 204, 255}

InitAnsi ==
    /\ pc = "ansi"
    /\ \E full \in 1..3, v \in 0..255, a \in ChannelSamples, b \in ChannelSamples :
         rgb = IF full = 1 THEN <<v, a, b>> ELSE IF full = 2 THEN <<a, v, b>> ELSE <<a, b, v>>
    /\ ansi_code = -1
    /\ PixelIdle
    /\ MainIdle
    /\ ReleaseIdle

\* ascii.py 115
CallRgbToAnsi ==
    /\ pc = "ansi"
    /\ ansi_code' = rgb_to_ansi(rgb[1], rgb[2], rgb[3])
    /\ pc' = "ansi_done"
    /\ UNCHANGED <<rgb, pixelVars, mainVars, releaseVars>>

NextAnsi == CallRgbToAnsi
SpecAnsi == InitAnsi /\ [][NextAnsi]_vars

(***************************************************************************)
(* SpecRelease: release.py                                                 *)
(***************************************************************************)
Versions == {<<a, b, c>> : a \in 0..MaxVer, b \in 0..MaxVer, c \in 0..MaxVer}

\* the bump argument: a keyword, an explicit X.Y.Z, or any other string
Bumps ==
    {[kind |-> k, version |-> NoVersion] : k \in {"patch", "minor", "major", "other"}}
    \cup {[kind |-> "explicit", version |-> v] : v \in Versions}

\* release.py 66-67
is_version(b) == b.kind = "explicit"

\* release.py 49-58; NoVersion stands for die("Invalid bump type")
bump_version(current, b) ==
    IF b.kind = "major" THEN <<current[1] + 1, 0, 0>>
    ELSE IF b.kind = "minor" THEN <<current[1], current[2] + 1, 0>>
    ELSE IF b.kind = "patch" THEN <<current[1], current[2], current[3] + 1>>
    ELSE NoVersion

InitRelease ==
    /\ pc = "start"
    /\ cmakelists \in {[exists |-> FALSE, version |-> NoVersion]}
                      \cup {[exists |-> TRUE, version |-> v] : v \in Versions \cup {NoVersion}}
    /\ rargs \in [bump : Bumps, dry_run : BOOLEAN]
    /\ current_version = NoVersion /\ new_version = NoVersion /\ tag = NoVersion
    /\ repo = EmptyRepo /\ steps = <<>> /\ status = -1
    /\ MainIdle
    /\ PixelIdle
    /\ AnsiIdle

\* release.py 26-28: die prints the message and exits with status 1
die == pc' = "exited" /\ status' = 1

\* release.py 76-79, 41-46
GetCurrentVersion ==
    /\ pc = "start"
    /\ IF ~cmakelists.exists \/ cmakelists.version = NoVersion
       THEN die /\ UNCHANGED current_version
       ELSE /\ current_version' = cmakelists.version
            /\ pc' = "new_version"
            /\ UNCHANGED status
    /\ UNCHANGED <<cmakelists, rargs, new_version, tag, repo, steps,
                   mainVars, pixelVars, ansiVars>>

\* release.py 81-90
ComputeNewVersion ==
    /\ pc = "new_version"
    /\ LET nv == IF is_version(rargs.bump) THEN rargs.bump.version
                 ELSE bump_version(current_version, rargs.bump)
       IN IF nv = NoVersion \/ nv = current_version
          THEN die /\ UNCHANGED <<new_version, tag>>
          ELSE /\ new_version' = nv
               /\ tag' = nv
               /\ pc' = "step1"
               /\ UNCHANGED status
    /\ UNCHANGED <<cmakelists, rargs, current_version, repo, steps,
                   mainVars, pixelVars, ansiVars>>

Ran(step, ok) == steps' = Append(steps, [step |-> step, ok |-> ok])

\* release.py 99-111: write_text may raise, which ends the script
UpdateCMakeLists ==
    /\ pc = "step1"
    /\ IF rargs.dry_run
       THEN pc' = "step2" /\ UNCHANGED <<cmakelists, steps, status>>
       ELSE \/ /\ cmakelists' = [cmakelists EXCEPT !.version = new_version]
               /\ Ran("write", TRUE)
               /\ pc' = "step2"
               /\ UNCHANGED status
            \/ /\ cmakelists' \in {cmakelists, [cmakelists EXCEPT !.version = NoVersion]}
               /\ Ran("write", FALSE)
               /\ die
    /\ UNCHANGED <<rargs, current_version, new_version, tag, repo, mainVars,
                   pixelVars, ansiVars>>

\* release.py 31-38: a git command succeeds with its effect, or fails and dies
gitIgnoringFailure(step, next, effect) ==
    \/ /\ repo' = effect
       /\ Ran(step, TRUE)
       /\ pc' = next
       /\ UNCHANGED status
    \/ /\ repo' = repo
       /\ Ran(step, FALSE)
       /\ pc' = next
       /\ UNCHANGED status
git(step, next, effect) ==
    \/ /\ repo' = effect
       /\ Ran(step, TRUE)
       /\ pc' = next
       /\ UNCHANGED status
    \/ /\ repo' = repo
       /\ Ran(step, FALSE)
       /\ die

\* release.py 113-118
GitAdd ==
    /\ pc = "step2"
    /\ IF rargs.dry_run
       THEN pc' = "step3" /\ UNCHANGED <<repo, steps, status>>
       ELSE git("add", "commit", [repo EXCEPT !.staged = TRUE])
    /\ UNCHANGED <<cmakelists, rargs, current_version, new_version, tag,
                   mainVars, pixelVars, ansiVars>>

\* release.py 119-121
GitCommit ==
    /\ pc = "commit"
    /\ git("commit", "step3", [repo EXCEPT !.staged = FALSE, !.commits = @ \cup {tag}])
    /\ UNCHANGED <<cmakelists, rargs, current_version, new_version, tag,
                   mainVars, pixelVars, ansiVars>>

\* release.py 123-130
GitTag ==
    /\ pc = "step3"
    /\ IF rargs.dry_run
       THEN pc' = "step4" /\ UNCHANGED <<repo, steps, status>>
       ELSE git("tag", "step4", [repo EXCEPT !.tags = @ \cup {tag}])
    /\ UNCHANGED <<cmakelists, rargs, current_version, new_version, tag,
                   mainVars, pixelVars, ansiVars>>

\* release.py 132-141
GitPush ==
    /\ pc = "step4"
    /\ IF rargs.dry_run
       THEN pc' = "pushed" /\ UNCHANGED <<repo, steps, status>>
       ELSE /\ git("push", "pushed", [repo EXCEPT !.pushed = @ \cup {tag}])
    /\ UNCHANGED <<cmakelists, rargs, current_version, new_version, tag,
                   mainVars, pixelVars, ansiVars>>

\* release.py 141, 144-145: main returns and the script ends with status 0
Done ==
    /\ pc = "pushed"
    /\ pc' = "exited"
    /\ status' = 0
    /\ UNCHANGED <<cmakelists, rargs, current_version, new_version, tag, repo, steps,
                   mainVars, pixelVars, ansiVars>>

NextRelease ==
    GetCurrentVersion \/ ComputeNewVersion \/ UpdateCMakeLists
    \/ GitAdd \/ GitCommit \/ GitTag \/ GitPush \/ Done
SpecRelease == InitRelease /\ [][NextRelease]_vars

(***************************************************************************)
(* Properties                                                              *)
(***************************************************************************)
Called(name) == \E k \in DOMAIN calls : calls[k] = name
Floor(a, b) == a \div b
Standard == CHARSETS["standard"]
Rows == {k \in DOMAIN lines : lines[k].kind = "row"}

\* C1 (as stated, SpecPixel): for every ramp of the table and every intensity
\* i, the glyph chosen for i with invert set equals the glyph chosen for
\* 255 - i on the same ramp without invert.
C1_InversionLaw ==
    (pc = "mapped" /\ args.invert)
        => char = Glyph(CHARSETS[args.charset],
                        GlyphIndex(255 - gray_val, Len(CHARSETS[args.charset])))

\* C1 (amended, SpecPixel): with invert set the glyph chosen for intensity i
\* is the ramp character at index L-1-floor(i*L/256); that is the glyph of
\* 255 - i without invert or the ramp character one index above it, and the
\* two agree at i = 0 and i = 255.
C1_MirroredIndex ==
    (pc = "mapped" /\ args.invert) =>
        LET ramp == CHARSETS[args.charset]
            L == Len(ramp)
            mirrored == L - 1 - Floor(gray_val * L, 256)
            plain == Min(Floor((255 - gray_val) * L, 256), L - 1)
        IN /\ char = ramp[mirrored + 1]
           /\ mirrored \in {plain, plain + 1}
           /\ gray_val \in {0, 255} => mirrored = plain

\* intensity 51 on the inverted simple ramp gives '#' (index 4), while 204 on
\* the plain ramp gives '*' (index 3)
C1_Witness ==
    /\ pc = "mapped" /\ args.invert /\ args.charset = "simple"
    /\ gray_val = 51 /\ char = 35
    /\ Glyph(CHARSETS["simple"], GlyphIndex(204, 5)) = 42

\* C2 (as stated, SpecCore): resolving a charset name outside the four
\* recognized ones fails with UnknownCharsetError; no ramp is used instead.
C2_UnknownCharsetFails ==
    (args.charset \notin CharsetNames /\ pc # "dimensions")
        => err = "UnknownCharsetError" /\ chars = <<>>

\* C2 (amended, SpecCore): image_to_ascii does not fail on a charset name
\* outside the four recognized ones; it falls back to the standard ramp
\* (reversed under invert) and renders every cell with it.
C2_FallsBackToStandard ==
    (args.charset \notin CharsetNames /\ pc # "dimensions") =>
        /\ chars = IF args.invert THEN Reverse(Standard) ELSE Standard
        /\ err # "UnknownCharsetError"
        /\ \A k \in Rows : \A x \in DOMAIN lines[k].cells :
              \E j \in DOMAIN Standard : lines[k].cells[x].char = Standard[j]

C2_Witness ==
    /\ pc = "returned" /\ args.charset = "bogus" /\ err = None
    /\ \E k \in Rows : lines[k].cells # <<>>

\* C3 (as stated, SpecCore): when the target width is <= 0 or a source
\* dimension is 0, computing the grid size fails with InvalidDimensionError:
\* no grid size is returned, the image is not resized, no cell is rendered.
C3_InvalidDimensionError ==
    ((args.width <= 0 \/ img.width = 0 \/ img.height = 0) /\ pc # "dimensions") =>
        /\ err = "InvalidDimensionError"
        /\ pc = "raised"
        /\ ~Called("resize")
        /\ Rows = {}

\* C3 (amended, SpecCore): there is no dedicated error.  A source width of 0
\* fails with ZeroDivisionError before any resize; a target width <= 0 or a
\* source height of 0 yields a grid of that width and of height <= 0, which is
\* handed to the resize unvalidated; in all these cases no row is rendered.
C3_NoValidation ==
    ((args.width <= 0 \/ img.width = 0 \/ img.height = 0) /\ pc # "dimensions") =>
        /\ img.width = 0 => (pc = "raised" /\ err = "ZeroDivisionError" /\ ~Called("resize"))
        /\ img.width # 0 =>
              /\ grid.width = args.width /\ grid.height <= 0
              /\ err \in {None, "ResizeError"}
              /\ pc \in {"resize", "render", "returned", "raised"}
              /\ pc \in {"render", "returned", "raised"} => Called("resize")
        /\ Rows = {}

C3_Witness ==
    /\ pc = "returned" /\ args.width = 0 /\ img.width > 0 /\ img.height > 0
    /\ Called("resize") /\ grid.height = 0 /\ err = None

\* C4 (as stated, Spec): with --dry-run on an existing input file the wrapper
\* reports success with the would-be output path, never converts and never
\* touches the output file, whether or not the output exists or --force is set.
C4_DryRunAlwaysSucceeds ==
    (pc = "done" /\ args.dry_run /\ Exists(fs0, args.input) /\ pillow
        /\ args.charset \in CharsetNames) =>
        /\ result.success /\ exit_code = 0
        /\ result.output = OutputPathOf(plugin, args)
        /\ calls = <<>> /\ fs = fs0

\* C4 (amended, Spec): with --dry-run on an existing input file (arguments
\* accepted, Pillow importable) the wrapper never opens or converts the image
\* and never touches the output file; it reports success with the would-be
\* output path when the output does not exist or --force is set, and the
\* "Output file exists" failure with exit code 1 otherwise.
C4_DryRunAfterOverwriteCheck ==
    (args.dry_run /\ Exists(fs0, args.input) /\ pillow /\ args.charset \in CharsetNames) =>
        /\ calls = <<>> /\ fs = fs0
        /\ pc = "done" =>
              IF Exists(fs0, OutputPathOf(plugin, args)) /\ ~args.force
              THEN result = Failure("Output file exists") /\ exit_code = 1
              ELSE /\ result.success /\ exit_code = 0
                   /\ result.output = OutputPathOf(plugin, args)

C4_Witness ==
    /\ pc = "done" /\ args.dry_run /\ result.success /\ exit_code = 0
    /\ args.force /\ Exists(fs0, output_path) /\ fs = fs0

\* C5 (Spec): when the derived output path exists at the check and --force is
\* not set, the run reports failure and never writes the output path.
C5_OverwriteRefused ==
    (Exists(fs0, OutputPathOf(plugin, args)) /\ ~args.force) =>
        /\ fs = fs0
        /\ ~Called("write") /\ ~Called("save")
        /\ pc = "done" => ~result.success /\ exit_code # 0
        /\ (pc = "done" /\ pillow /\ args.charset \in CharsetNames /\ Exists(fs0, args.input))
              => result = Failure("Output file exists") /\ exit_code = 1

C5_Witness ==
    /\ pc = "done" /\ ~args.force /\ ~args.dry_run
    /\ Exists(fs0, output_path) /\ fs0[output_path] = OldFile
    /\ result = Failure("Output file exists") /\ fs = fs0

\* C6 (Spec): when decoding, resizing or rendering fails in the ascii wrapper
\* the output file is neither created nor modified and the run ends with
\* success=false and exit code 1; the write comes only after image_to_ascii
\* returned the complete text.
C6_NoPartialOutput ==
    plugin = "ascii" =>
        /\ err \in {"DecodeError", "ZeroDivisionError", "ResizeError"} =>
              /\ fs = fs0 /\ ~Called("write")
              /\ pc = "done" => (~result.success /\ exit_code = 1)
        /\ Called("write") => (Called("render") /\ ascii_art = JoinLines(lines))

C6_Witness ==
    /\ pc = "done" /\ plugin = "ascii" /\ err = "ResizeError"
    /\ ~result.success /\ exit_code = 1
    /\ args.force /\ Exists(fs0, output_path) /\ fs = fs0

C8_AnsiCube ==
    pc = "ansi_done" =>
        /\ ansi_code = 16 + 36 * Floor(rgb[1] * 5, 255) + 6 * Floor(rgb[2] * 5, 255)
                          + Floor(rgb[3] * 5, 255)
        /\ ansi_code \in 16..231
        /\ rgb = <<0, 0, 0>> => ansi_code = 16
        /\ rgb = <<255, 255, 255>> => ansi_code = 231

C8_Witness == pc = "ansi_done" /\ rgb = <<255, 50, 204>> /\ ansi_code = 196 + 4

\* C9 (SpecGrid): for a target width > 0 and a source of w x h the grid
\* height is floor(targetWidth * h / w * 0.5).
C9_GridHeightIsFloor ==
    (pc = "resize" /\ args.width > 0) =>
        /\ grid.width = args.width
        /\ grid.height = Floor(args.width * img.height, 2 * img.width)

Order == <<"write", "add", "commit", "tag", "push">>

\* C10 (SpecRelease): without --dry-run the steps run in the order write,
\* add, commit, tag, push; a step runs only after every earlier one succeeded,
\* a failing step ends the script with status 1, and the tag is pushed only
\* if the commit and the tag were made in this run.
C10_ReleaseOrder ==
    /\ Len(steps) <= Len(Order)
    /\ \A k \in DOMAIN steps :
          /\ steps[k].step = Order[k]
          /\ k < Len(steps) => steps[k].ok
    /\ (steps # <<>> /\ ~steps[Len(steps)].ok) => (pc = "exited" /\ status = 1)
    /\ tag \in repo.pushed => (tag \in repo.commits /\ tag \in repo.tags
                                /\ cmakelists.version = new_version)
    /\ status = 0 => (rargs.dry_run \/ tag \in repo.pushed)
    /\ rargs.dry_run => (steps = <<>> /\ repo = EmptyRepo)

C10_Witness ==
    /\ pc = "exited" /\ status = 0 /\ ~rargs.dry_run
    /\ Len(steps) = 5 /\ tag \in repo.pushed /\ cmakelists.version = new_version

====
